---------------------------- MODULE Spec2Model ----------------------------
(***************************************************************************)
(* logger_cloudwatch_structlog: the censor stage (PasswordCensor), the     *)
(* callout-and-render stage (AWSCloudWatchLogs), the pipeline assembler    *)
(* (setup_logging) and the logger accessor (get_logger).                   *)
(*                                                                         *)
(* Three specifications share the module:                                  *)
(*   SpecCensor  PasswordCensor construction and call, as a function of    *)
(*               its inputs;                                               *)
(*   SpecRender  AWSCloudWatchLogs construction and call;                  *)
(*   Spec        the process: setup_logging, get_logger, thread-local      *)
(*               binding and emission through a logger handle.             *)
(***************************************************************************)
EXTENDS Integers, Sequences, FiniteSets, TLC

VARIABLES
    \* ---- stage-level state (SpecCensor, SpecRender) ----
    pc,             \* position of the stage under test: "new", "built", "raised", "called"
    wordlist,       \* PasswordCensor._wordlist
    censor_fn,      \* PasswordCensor._censor: name of the closure _make_censor returned
    callouts,       \* the callouts argument of AWSCloudWatchLogs.__init__
    callout_keys,   \* <<self._callout_one_key, self._callout_two_key>>
    name,           \* the method name handed to a stage
    event_in,       \* the event record as it entered the stage (history)
    event_dict,     \* the event record object (PasswordCensor mutates it in place)
    ret,            \* what the stage returned: <<>> before the call, <<value>> after
    raised,         \* the exception that left the constructor, "" if none
    \* ---- process-level state (Spec) ----
    config,         \* structlog._CONFIG: default_processors, cache_logger_on_first_use
    root,           \* logging.root: level and handlers
    source_level,   \* logging.getLogger(source).level for every source, NOTSET if never set
    handles,        \* the logger handles get_logger returned
    threadlocal,    \* the thread-local context merge_threadlocal reads
    last_setup,     \* the arguments and outcome of the latest setup_logging call
    last_call       \* what the latest log call since the latest setup_logging call did

stageVars == <<pc, wordlist, censor_fn, callouts, callout_keys, name, event_in,
               event_dict, ret, raised>>
procVars  == <<config, root, source_level, handles, threadlocal, last_setup, last_call>>
vars      == <<stageVars, procVars>>

----------------------------------------------------------------------------
(* Python values.  A value is a record of its type and its text; the       *)
(* text of a container is the text of its elements.                        *)

PyStr(s)   == [t |-> "str", v |-> s]
PyInt(s)   == [t |-> "int", v |-> s]
PyNone     == [t |-> "NoneType", v |-> "None"]
PyTrue     == [t |-> "bool", v |-> "True"]
PyFalse    == [t |-> "bool", v |-> "False"]
PyTuple(s) == [t |-> "tuple", v |-> s]
PyList(s)  == [t |-> "list", v |-> s]
PyObject   == [t |-> "object", v |-> "<Request>"]

\* bool(x)
Truthy(x) ==
    CASE x.t = "str"      -> x.v # ""
      [] x.t = "int"      -> x.v # "0"
      [] x.t = "NoneType" -> FALSE
      [] x.t = "bool"     -> x.v = "True"
      [] x.t = "tuple"    -> x.v # ""
      [] x.t = "list"     -> x.v # ""
      [] OTHER            -> TRUE

\* str(x), as an f-string formats a value
Format(x) ==
    CASE x.t = "tuple" -> "(" \o x.v \o ")"
      [] x.t = "list"  -> "[" \o x.v \o "]"
      [] OTHER         -> x.v

\* dict.get(key, None) on an event record (a function from its keys)
Get(d, key) == IF key \in DOMAIN d THEN d[key] ELSE PyNone

\* d[key] = value
SetItem(d, key, value) ==
    [k \in DOMAIN d \cup {key} |-> IF k = key THEN value ELSE d[k]]

\* None used as a key: equal to no string
NoKey == "<None>"

CENSORED == PyStr("*CENSORED*")

----------------------------------------------------------------------------
(* custom_processors.py: PasswordCensor and _make_censor.                   *)
(* A wordlist argument is a record of its exact type and its items.        *)

NoWordlist == [t |-> "NoneType", items |-> <<>>]

\* the loop of censor_every_word over wordlist[i..]
RECURSIVE censor_loop(_, _, _)
censor_loop(items, i, d) ==
    IF i > Len(items) THEN d
    ELSE LET pw == Get(d, items[i])
         IN  censor_loop(items, i + 1,
                         IF Truthy(pw) THEN SetItem(d, items[i], CENSORED) ELSE d)

\* a censor that assigns the marker without looking at the value
censor_every_word_unconditional(wl, d) ==
    LET RECURSIVE loop(_, _)
        loop(i, e) == IF i > Len(wl.items) THEN e
                      ELSE loop(i + 1, SetItem(e, wl.items[i], CENSORED))
    IN  loop(1, d)

censor_every_word(wl, d) == censor_loop(wl.items, 1, d)

nothing_to_do(d) == d

\* a type test that lets every iterable through
wordlist_type_ok_iterable(wl) == wl.t \in {"tuple", "list", "namedtuple", "str", "set"}

\* type(wordlist) is tuple or type(wordlist) is list
wordlist_type_ok(wl) == wl.t = "tuple" \/ wl.t = "list"

\* _make_censor: the closure it returns, or the exception it raises
make_censor(wl) ==
    IF wl.t = "NoneType" THEN [exc |-> "", fn |-> "nothing_to_do"]
    ELSE IF ~wordlist_type_ok(wl) THEN [exc |-> "ValueError", fn |-> ""]
    ELSE [exc |-> "", fn |-> "censor_every_word"]

\* self._censor(event_dict)
apply_censor(fn, wl, d) ==
    IF fn = "nothing_to_do" THEN nothing_to_do(d) ELSE censor_every_word(wl, d)

----------------------------------------------------------------------------
(* custom_processors.py: AWSCloudWatchLogs.                                 *)

NoCallouts == [t |-> "NoneType", items |-> <<>>]

\* callouts[i] (i counted from 0): the item, or the exception indexing raises
Index(c, i) ==
    IF c.t = "NoneType" THEN [exc |-> "TypeError", val |-> NoKey]
    ELSE IF i + 1 > Len(c.items) THEN [exc |-> "IndexError", val |-> NoKey]
    ELSE [exc |-> "", val |-> c.items[i + 1]]

\* try: key = callouts[i]  except IndexError: key = None
callout_key_index_error_only(c, i) ==
    LET r == Index(c, i)
    IN  IF r.exc = "IndexError" THEN [exc |-> "", val |-> NoKey] ELSE r

\* try: key = callouts[i]  except (IndexError, TypeError): key = None
callout_key(c, i) ==
    LET r == Index(c, i)
    IN  IF r.exc \in {"IndexError", "TypeError"} THEN [exc |-> "", val |-> NoKey] ELSE r

\* AWSCloudWatchLogs.__init__: the two callout keys, or the exception that escapes
AWSCloudWatchLogs_init(c) ==
    LET one == callout_key(c, 0)
        two == callout_key(c, 1)
    IN  IF one.exc # "" THEN [exc |-> one.exc, keys |-> <<NoKey, NoKey>>]
        ELSE IF two.exc # "" THEN [exc |-> two.exc, keys |-> <<NoKey, NoKey>>]
        ELSE [exc |-> "", keys |-> <<one.val, two.val>>]

\* name.upper()
Upper(n) ==
    CASE n = "debug"    -> "DEBUG"
      [] n = "info"     -> "INFO"
      [] n = "warning"  -> "WARNING"
      [] n = "error"    -> "ERROR"
      [] n = "critical" -> "CRITICAL"

\* structlog's _json_fallback_handler, the default= of the serializer: repr(obj)
json_fallback_handler(x) == [j |-> "string", v |-> x.v]

\* json.dumps of one value: a JSON value (its kind and its text)
JsonEncode(x) ==
    CASE x.t = "str"      -> [j |-> "string", v |-> x.v]
      [] x.t = "int"      -> [j |-> "number", v |-> x.v]
      [] x.t = "NoneType" -> [j |-> "null", v |-> "null"]
      [] x.t = "bool"     -> IF x.v = "True" THEN [j |-> "true", v |-> "true"]
                                             ELSE [j |-> "false", v |-> "false"]
      [] x.t = "tuple"    -> [j |-> "array", v |-> x.v]
      [] x.t = "list"     -> [j |-> "array", v |-> x.v]
      [] OTHER            -> json_fallback_handler(x)

\* json.loads of one JSON value
JsonDecode(y) ==
    CASE y.j = "string" -> PyStr(y.v)
      [] y.j = "number" -> PyInt(y.v)
      [] y.j = "null"   -> PyNone
      [] y.j = "true"   -> PyTrue
      [] y.j = "false"  -> PyFalse
      [] y.j = "array"  -> PyList(y.v)

\* self._dumps(event_dict, **self._dumps_kw): the JSON object, member by member
json_dumps(d) == [k \in DOMAIN d |-> JsonEncode(d[k])]

\* json.loads of a JSON object
json_loads(body) == [k \in DOMAIN body |-> JsonDecode(body[k])]

\* AWSCloudWatchLogs.__call__, lines 42-49: the header
render_header(keys, n, d) ==
    LET callout_one == Get(d, keys[1])
        callout_two == Get(d, keys[2])
        h0 == "[" \o Upper(n) \o "] "
        h1 == IF Truthy(callout_one) THEN h0 \o "\"" \o Format(callout_one) \o "\" " ELSE h0
    IN  IF Truthy(callout_two) THEN h1 \o "\"" \o Format(callout_two) \o "\" " ELSE h1

\* a body that drops the callout fields from the payload
render_body_without_callouts(keys, d) ==
    [k \in DOMAIN d \ {keys[1], keys[2]} |-> JsonEncode(d[k])]

\* AWSCloudWatchLogs.__call__, line 51: the payload after the header
render_body(keys, d) == json_dumps(d)

\* AWSCloudWatchLogs.__call__: the rendered line, header then JSON body
AWSCloudWatchLogs_call(keys, n, d) ==
    [header |-> render_header(keys, n, d), body |-> render_body(keys, d)]

----------------------------------------------------------------------------
(* The process before setup_logging has run (also the idle process part    *)
(* of the stage-level specifications).                                     *)

\* logging's numeric level of a level or method name
LevelOf(n) ==
    CASE n = "notset"   -> 0
      [] n = "debug"    -> 10
      [] n = "info"     -> 20
      [] n = "warning"  -> 30
      [] n = "error"    -> 40
      [] n = "critical" -> 50

NOTSET == LevelOf("notset")

\* the logger namespaces of the model; "botocore.auth" is a child of "botocore"
Sources == {"app", "botocore", "botocore.auth"}

\* a handler the host environment installed on the root logger before setup
HostHandler == [stream |-> "host", format |-> "host-format"]

\* one stage of a pipeline: its name and, for the two stages of this
\* repository, the state their constructors stored
Stage(n) == [stage |-> n, wordlist |-> NoWordlist, censor_fn |-> "",
             keys |-> <<NoKey, NoKey>>]

\* structlog's configuration before structlog.configure was ever called
Unconfigured ==
    [processors |-> <<>>, is_configured |-> FALSE, cache_logger_on_first_use |-> FALSE]

\* no setup_logging call yet
NoSetup == [called |-> FALSE, wordlist |-> NoWordlist, callouts |-> NoCallouts,
            processors |-> <<>>, level |-> NOTSET, noisy |-> {}, raised |-> ""]

\* no log call since the latest setup_logging call
NoCall == [handle |-> 0, method |-> "", pipeline |-> <<>>,
           ran |-> <<>>, lines |-> <<>>]

ProcInit ==
    /\ config = Unconfigured
    /\ root \in {[level |-> LevelOf("warning"), handlers |-> hs] : hs \in {<<>>, <<HostHandler>>}}
    /\ source_level = [s \in Sources |-> NOTSET]
    /\ handles = <<>>
    /\ threadlocal = <<>>
    /\ last_setup = NoSetup
    /\ last_call = NoCall

ProcIdle ==
    /\ config = Unconfigured
    /\ root = [level |-> LevelOf("warning"), handlers |-> <<>>]
    /\ source_level = [s \in Sources |-> NOTSET]
    /\ handles = <<>>
    /\ threadlocal = <<>>
    /\ last_setup = NoSetup
    /\ last_call = NoCall

----------------------------------------------------------------------------
(* SpecCensor: PasswordCensor(wordlist) constructed, then called on an     *)
(* event record, for every wordlist and record of the bounded sets.        *)

MaxWordlistLen == 2

\* every sequence over S of length at most n
SeqsUpTo(S, n) == UNION {[1..m -> S] : m \in 0..n}

\* every event record over the keys K with values in V
EventDicts(K, V) == UNION {[S -> V] : S \in SUBSET K}

CensorKeys   == {"event", "status_code", "password"}
CensorValues == {PyStr("abc123"), PyStr(""), PyInt("403"), PyInt("0"), PyNone, CENSORED}
\* key names a wordlist may hold; "token" is in no record
WordKeys     == {"password", "event", "token"}

Wordlists ==
    {NoWordlist}
    \cup {[t |-> ty, items |-> it] : ty \in {"list", "tuple"},
                                    it \in SeqsUpTo(WordKeys, MaxWordlistLen)}
    \cup {[t |-> ty, items |-> <<"password">>] : ty \in {"str", "dict", "set", "namedtuple"}}

InitCensor ==
    /\ pc = "new"
    /\ wordlist \in Wordlists
    /\ event_dict \in EventDicts(CensorKeys, CensorValues)
    /\ event_in = event_dict
    /\ censor_fn = ""
    /\ ret = <<>>
    /\ raised = ""
    /\ callouts = NoCallouts
    /\ callout_keys = <<NoKey, NoKey>>
    /\ name = "info"
    /\ ProcIdle

\* PasswordCensor.__init__
PasswordCensor_init ==
    /\ pc = "new"
    /\ LET r == make_censor(wordlist)
       IN  /\ raised' = r.exc
           /\ censor_fn' = r.fn
           /\ pc' = IF r.exc # "" THEN "raised" ELSE "built"
    /\ UNCHANGED <<wordlist, callouts, callout_keys, name, event_in, event_dict, ret>>
    /\ UNCHANGED procVars

\* PasswordCensor.__call__ (again on its own output when called twice)
PasswordCensor_call ==
    /\ pc \in {"built", "called"}
    /\ event_in' = event_dict
    /\ event_dict' = apply_censor(censor_fn, wordlist, event_dict)
    /\ ret' = <<event_dict'>>
    /\ pc' = "called"
    /\ UNCHANGED <<wordlist, censor_fn, callouts, callout_keys, name, raised>>
    /\ UNCHANGED procVars

NextCensor == PasswordCensor_init \/ PasswordCensor_call

SpecCensor == InitCensor /\ [][NextCensor]_vars

\* key k is named in the wordlist under test
InWordlist(k) ==
    /\ wordlist.t # "NoneType"
    /\ \E i \in 1..Len(wordlist.items) : wordlist.items[i] = k

\* C1: the output of the censor stage has exactly the keys of its input; a key
\* named in the wordlist whose input value is truthy maps to "*CENSORED*", every
\* other key keeps its input value, and with an unset wordlist the output is
\* the input.
C1_CensorContract ==
    pc = "called" =>
        LET out == ret[1]
        IN  /\ DOMAIN out = DOMAIN event_in
            /\ \A k \in DOMAIN out :
                   IF InWordlist(k) /\ Truthy(event_in[k])
                   THEN out[k] = CENSORED
                   ELSE out[k] = event_in[k]
            /\ wordlist.t = "NoneType" => out = event_in

\* C1 witness: a record with a truthy password and an empty event went through
\* a censor for password and the absent key token.
C1_Witness ==
    /\ pc = "called"
    /\ wordlist = [t |-> "list", items |-> <<"password", "token">>]
    /\ event_in = [k \in {"password", "event"} |->
                      IF k = "password" THEN PyStr("abc123") ELSE PyStr("")]
    /\ ret[1] = [k \in {"password", "event"} |->
                      IF k = "password" THEN CENSORED ELSE PyStr("")]

\* C5: constructing the censor raises ValueError, before any record is
\* processed, exactly when the wordlist's type is none of NoneType, list and
\* tuple (an instance of a subclass such as a namedtuple is none of them);
\* with an unset wordlist, a list or a tuple it never raises.
C5_ConstructionValidates ==
    pc # "new" =>
        IF wordlist.t \in {"NoneType", "list", "tuple"}
        THEN raised = "" /\ pc # "raised" /\ censor_fn # ""
        ELSE /\ pc = "raised" /\ raised = "ValueError"
             /\ ret = <<>> /\ event_dict = event_in

\* C5 witness: a single string as the wordlist made the constructor raise.
C5_Witness ==
    /\ pc = "raised"
    /\ wordlist.t = "str"
    /\ raised = "ValueError"

----------------------------------------------------------------------------
(* SpecRender: AWSCloudWatchLogs(callouts) constructed, then called.       *)

MaxCalloutLen == 3

RenderKeys   == {"event", "status_code"}
RenderValues == {PyStr("login"), PyStr(""), PyInt("403"), PyInt("0"), PyNone,
                 PyTrue, PyTuple("1, 2"), PyList("1, 2"), PyObject}
\* key names a callouts configuration may hold; "request_id" is in no record
CalloutKeys  == {"status_code", "event", "request_id"}
RenderMethods == {"info", "warning"}

CalloutConfigs ==
    {NoCallouts}
    \cup {[t |-> "list", items |-> it] : it \in SeqsUpTo(CalloutKeys, MaxCalloutLen)}

InitRender ==
    /\ pc = "new"
    /\ callouts \in CalloutConfigs
    /\ name \in RenderMethods
    /\ event_dict \in EventDicts(RenderKeys, RenderValues)
    /\ event_in = event_dict
    /\ callout_keys = <<NoKey, NoKey>>
    /\ ret = <<>>
    /\ raised = ""
    /\ wordlist = NoWordlist
    /\ censor_fn = ""
    /\ ProcIdle

\* AWSCloudWatchLogs.__init__
AWSCloudWatchLogs_new ==
    /\ pc = "new"
    /\ LET r == AWSCloudWatchLogs_init(callouts)
       IN  /\ raised' = r.exc
           /\ callout_keys' = r.keys
           /\ pc' = IF r.exc # "" THEN "raised" ELSE "built"
    /\ UNCHANGED <<wordlist, censor_fn, callouts, name, event_in, event_dict, ret>>
    /\ UNCHANGED procVars

\* AWSCloudWatchLogs.__call__: returns the line, the record is not touched
AWSCloudWatchLogs_render ==
    /\ pc = "built"
    /\ ret' = <<AWSCloudWatchLogs_call(callout_keys, name, event_dict)>>
    /\ event_in' = event_dict
    /\ pc' = "called"
    /\ UNCHANGED <<wordlist, censor_fn, callouts, callout_keys, name, event_dict, raised>>
    /\ UNCHANGED procVars

NextRender == AWSCloudWatchLogs_new \/ AWSCloudWatchLogs_render

SpecRender == InitRender /\ [][NextRender]_vars

\* the callout segments, in configuration order, of the keys items[i..] that
\* are present in d with a truthy value
RECURSIVE CalloutSegments(_, _, _)
CalloutSegments(items, i, d) ==
    IF i > Len(items) THEN ""
    ELSE (IF Truthy(Get(d, items[i])) THEN "\"" \o Format(d[items[i]]) \o "\" " ELSE "")
         \o CalloutSegments(items, i + 1, d)

\* C3: for an unset callouts configuration or one of length 0, 1 or 2, neither
\* the constructor nor the call raises, and the header is "[<METHOD>] " followed
\* by one "<value>" segment for each configured key present with a truthy value,
\* in configuration order, and nothing else.
C3_HeaderContract ==
    (pc # "new" /\ Len(callouts.items) <= 2) =>
        /\ raised = "" /\ pc # "raised"
        /\ pc = "called" =>
               ret[1].header = "[" \o Upper(name) \o "] "
                                   \o CalloutSegments(callouts.items, 1, event_in)

\* C3 witness: the documented scenario, callouts status_code and event on a
\* warning whose record holds 403 and "login".
C3_Witness ==
    /\ pc = "called"
    /\ callouts.items = <<"status_code", "event">>
    /\ name = "warning"
    /\ ret[1].header = "[WARNING] \"403\" \"login\" "

\* every value of d is one json.loads gives back as it was
JsonNative(d) == \A k \in DOMAIN d : d[k].t \in {"str", "int", "bool", "NoneType", "list"}

----------------------------------------------------------------------------
(* functions.py: the stages setup_logging puts in the default list.  The   *)
(* stages other than PasswordCensor and AWSCloudWatchLogs are structlog's, *)
(* modelled by what the comments of the list say they do.                  *)

WARNING == LevelOf("warning")

\* del d[key] if present
Remove(d, key) == [k \in DOMAIN d \ {key} |-> d[k]]

\* the parent of a logger namespace
Parent(nm) == IF nm = "botocore.auth" THEN "botocore" ELSE "root"

\* logging.Logger.getEffectiveLevel: the first level set on the way to the root
EffectiveLevel(nm) ==
    IF source_level[nm] # NOTSET THEN source_level[nm]
    ELSE IF Parent(nm) # "root" /\ source_level[Parent(nm)] # NOTSET
         THEN source_level[Parent(nm)]
         ELSE root.level

\* logging.Logger.isEnabledFor
isEnabledFor(nm, level) == level >= EffectiveLevel(nm)

add_log_level(n, d) == SetItem(d, "level", PyStr(n))

PositionalArgumentsFormatter(d) == Remove(d, "positional_args")

TimeStamper(d) == SetItem(d, "timestamp", PyStr("<iso-8601 now>"))

StackInfoRenderer(d) ==
    IF Truthy(Get(d, "stack_info"))
    THEN SetItem(Remove(d, "stack_info"), "stack", PyStr("<stack>"))
    ELSE Remove(d, "stack_info")

format_exc_info(d) ==
    IF Truthy(Get(d, "exc_info"))
    THEN SetItem(Remove(d, "exc_info"), "exception", PyStr("<traceback>"))
    ELSE Remove(d, "exc_info")

UnicodeDecoder(d) == [k \in DOMAIN d |-> IF d[k].t = "bytes" THEN PyStr(d[k].v) ELSE d[k]]

\* merge_threadlocal: the thread-local context, updated with the event record
merge_threadlocal(d) ==
    [k \in DOMAIN threadlocal \cup DOMAIN d |-> IF k \in DOMAIN d THEN d[k] ELSE threadlocal[k]]

\* one stage applied to the record: dropped, or the record, or the final line
RunStage(st, logger, n, d) ==
    LET go(e) == [drop |-> FALSE, d |-> e, line |-> <<>>]
    IN  CASE st.stage = "filter_by_level" ->
                 IF isEnabledFor(logger, LevelOf(n)) THEN go(d)
                 ELSE [drop |-> TRUE, d |-> d, line |-> <<>>]
          [] st.stage = "add_log_level"   -> go(add_log_level(n, d))
          [] st.stage = "PositionalArgumentsFormatter" -> go(PositionalArgumentsFormatter(d))
          [] st.stage = "TimeStamper"     -> go(TimeStamper(d))
          [] st.stage = "StackInfoRenderer" -> go(StackInfoRenderer(d))
          [] st.stage = "format_exc_info" -> go(format_exc_info(d))
          [] st.stage = "UnicodeDecoder"  -> go(UnicodeDecoder(d))
          [] st.stage = "PasswordCensor"  -> go(apply_censor(st.censor_fn, st.wordlist, d))
          [] st.stage = "merge_threadlocal" -> go(merge_threadlocal(d))
          [] st.stage = "AWSCloudWatchLogs" ->
                 [drop |-> FALSE, d |-> d,
                  line |-> <<AWSCloudWatchLogs_call(st.keys, n, d)>>]

\* the stages procs[i..] applied in order: which ran, and the line, if any
RECURSIVE RunPipeline(_, _, _, _, _, _)
RunPipeline(procs, i, logger, n, d, ran) ==
    IF i > Len(procs) THEN [dropped |-> FALSE, ran |-> ran, line |-> <<>>]
    ELSE LET r == RunStage(procs[i], logger, n, d)
             ran2 == Append(ran, procs[i].stage)
         IN  IF r.drop THEN [dropped |-> TRUE, ran |-> ran2, line |-> <<>>]
             ELSE IF Len(r.line) = 1 THEN [dropped |-> FALSE, ran |-> ran2, line |-> r.line]
             ELSE RunPipeline(procs, i + 1, logger, n, r.d, ran2)

\* a default list that lacks the level filter
default_processors_no_filter(wl, c) ==
    LET cen == make_censor(wl)
        aws == AWSCloudWatchLogs_init(c)
    IN  IF cen.exc # "" THEN [exc |-> cen.exc, processors |-> <<>>]
        ELSE [exc |-> "",
              processors |->
                <<Stage("add_log_level"),
                  Stage("PositionalArgumentsFormatter"), Stage("TimeStamper"),
                  Stage("StackInfoRenderer"), Stage("format_exc_info"),
                  Stage("UnicodeDecoder"),
                  [Stage("PasswordCensor") EXCEPT !.wordlist = wl, !.censor_fn = cen.fn],
                  Stage("merge_threadlocal"),
                  [Stage("AWSCloudWatchLogs") EXCEPT !.keys = aws.keys]>>]

\* setup_logging, lines 45-69: the default list, or the exception one of its
\* constructors raises
default_processors(wl, c) ==
    LET cen == make_censor(wl)
        aws == AWSCloudWatchLogs_init(c)
    IN  IF cen.exc # "" THEN [exc |-> cen.exc, processors |-> <<>>]
        ELSE IF aws.exc # "" THEN [exc |-> aws.exc, processors |-> <<>>]
        ELSE [exc |-> "",
              processors |->
                <<Stage("filter_by_level"), Stage("add_log_level"),
                  Stage("PositionalArgumentsFormatter"), Stage("TimeStamper"),
                  Stage("StackInfoRenderer"), Stage("format_exc_info"),
                  Stage("UnicodeDecoder"),
                  [Stage("PasswordCensor") EXCEPT !.wordlist = wl, !.censor_fn = cen.fn],
                  Stage("merge_threadlocal"),
                  [Stage("AWSCloudWatchLogs") EXCEPT !.keys = aws.keys]>>]

\* a setup that builds the default stages before looking at the override
setup_processors_always_build(wl, c, override) ==
    LET built == default_processors(wl, c)
    IN  IF built.exc # "" \/ Len(override) = 0 THEN built
        ELSE [exc |-> "", processors |-> override[1]]

\* setup_logging, line 44: the default list only if no override was passed
setup_processors(wl, c, override) ==
    IF Len(override) = 0 THEN default_processors(wl, c)
    ELSE [exc |-> "", processors |-> override[1]]

\* a configuration that does not cache the bound logger on first use
structlog_configure_no_cache(processors) ==
    [processors |-> processors, is_configured |-> TRUE,
     cache_logger_on_first_use |-> FALSE]

\* setup_logging, lines 73-87: structlog.configure(processors=...,
\* cache_logger_on_first_use=True) replaces the configuration
structlog_configure(processors) ==
    [processors |-> processors, is_configured |-> TRUE,
     cache_logger_on_first_use |-> TRUE]

\* the handler logging.basicConfig installs
StdoutHandler == [stream |-> "stdout", format |-> "%(message)s"]

\* logging.basicConfig(format=, stream=, level=, force=True): every handler of
\* the root logger is removed, one stream handler is added, the level is set
basicConfig(r, level) == [level |-> level, handlers |-> <<StdoutHandler>>]

\* setup_logging, lines 98-99: logging.getLogger(source).setLevel(WARNING)
set_noisy_levels(sl, noisy) == [s \in DOMAIN sl |-> IF s \in noisy THEN WARNING ELSE sl[s]]

----------------------------------------------------------------------------
(* Spec: the process.  setup_logging, get_logger, binding and clearing the *)
(* thread-local context, and a log call through a handle.                  *)

MaxHandles == 2

SetupWordlists == {[t |-> "list", items |-> <<"password">>],
                   [t |-> "str", items |-> <<"password">>]}
\* the callouts setup_and_get_logger passes by default
DefaultCallouts == [t |-> "list", items |-> <<"status_code", "event">>]
\* an explicit processors list a caller may pass: its own two stages
CustomProcessors == <<Stage("add_log_level"), Stage("AWSCloudWatchLogs")>>
SetupOverrides == {<<>>, <<CustomProcessors>>}
SetupLevels    == {LevelOf("info"), LevelOf("error")}
NoisyChoices   == {{}, {"botocore"}}

Secret  == [k \in {"password"} |-> PyStr("hunter2")]
\* get_logger("app", password=...) and get_logger("botocore.auth")
HandleArgs == {[name |-> "app", context |-> Secret],
               [name |-> "botocore.auth", context |-> <<>>]}
Keywords == {<<>>, Secret}
Methods  == {"info", "warning"}

StageIdle ==
    /\ pc = "idle"
    /\ wordlist = NoWordlist
    /\ censor_fn = ""
    /\ callouts = NoCallouts
    /\ callout_keys = <<NoKey, NoKey>>
    /\ name = ""
    /\ event_in = <<>>
    /\ event_dict = <<>>
    /\ ret = <<>>
    /\ raised = ""

Init == StageIdle /\ ProcInit

\* setup_logging(wordlist_to_censor, callouts, processors, serializer, level,
\* noisy_log_sources): an exception of a stage constructor leaves before
\* structlog.configure and logging.basicConfig are reached
setup_logging ==
    /\ \E wl \in SetupWordlists, ov \in SetupOverrides,
          lv \in SetupLevels, noisy \in NoisyChoices :
          LET built == setup_processors(wl, DefaultCallouts, ov)
          IN  /\ last_setup' = [called |-> TRUE, wordlist |-> wl,
                                callouts |-> DefaultCallouts, processors |-> ov,
                                level |-> lv, noisy |-> noisy, raised |-> built.exc]
              /\ IF built.exc # ""
                 THEN UNCHANGED <<config, root, source_level>>
                 ELSE /\ config' = structlog_configure(built.processors)
                      /\ root' = basicConfig(root, lv)
                      /\ source_level' = set_noisy_levels(source_level, noisy)
    /\ last_call' = NoCall
    /\ UNCHANGED <<handles, threadlocal>>
    /\ UNCHANGED stageVars

\* get_logger(*args, **initial_values): a lazy proxy, bound to nothing yet
get_logger ==
    /\ Len(handles) < MaxHandles
    /\ \E a \in HandleArgs :
          handles' = Append(handles, [name |-> a.name, context |-> a.context,
                                      bound |-> <<>>])
    /\ UNCHANGED <<config, root, source_level, threadlocal, last_setup, last_call>>
    /\ UNCHANGED stageVars

\* structlog.threadlocal.bind_threadlocal(password=...): what merge_threadlocal
\* will merge in
bind_threadlocal ==
    /\ threadlocal = <<>>
    /\ threadlocal' = Secret
    /\ UNCHANGED <<config, root, source_level, handles, last_setup, last_call>>
    /\ UNCHANGED stageVars

\* structlog.threadlocal.clear_threadlocal()
clear_threadlocal ==
    /\ threadlocal # <<>>
    /\ threadlocal' = <<>>
    /\ UNCHANGED <<config, root, source_level, handles, last_setup, last_call>>
    /\ UNCHANGED stageVars

\* the proxy's bind: the processors of the cached bound logger, or those of
\* the configuration as it is now
bind_pipeline(hd) == IF Len(hd.bound) = 1 THEN hd.bound[1] ELSE config.processors

\* logging.Logger.<method>(line): one output line per handler of the root
\* logger if the logger is enabled for the level
logger_emit(nm, n, line) ==
    IF isEnabledFor(nm, LevelOf(n))
    THEN [i \in 1..Len(root.handlers) |->
              [stream |-> root.handlers[i].stream, header |-> line.header,
               body |-> line.body]]
    ELSE <<>>

\* log.<method>("login", **kw) through handle h.  Emission before the first
\* setup_logging goes through structlog's built-in configuration, which the
\* library leaves unspecified; the model starts emitting once it is configured.
log_call ==
    /\ config.is_configured
    /\ \E h \in 1..Len(handles), n \in Methods, kw \in Keywords :
          LET hd == handles[h]
              p  == bind_pipeline(hd)
              d0 == SetItem([k \in DOMAIN hd.context \cup DOMAIN kw |->
                                IF k \in DOMAIN kw THEN kw[k] ELSE hd.context[k]],
                            "event", PyStr("login"))
              r  == RunPipeline(p, 1, hd.name, n, d0, <<>>)
          IN  /\ handles' = [handles EXCEPT ![h].bound =
                                IF config.cache_logger_on_first_use THEN <<p>> ELSE @]
              /\ last_call' = [handle |-> h, method |-> n,
                               pipeline |-> p, ran |-> r.ran,
                               lines |-> IF Len(r.line) = 1
                                         THEN logger_emit(hd.name, n, r.line[1])
                                         ELSE <<>>]
    /\ UNCHANGED <<config, root, source_level, threadlocal, last_setup>>
    /\ UNCHANGED stageVars

Next == setup_logging \/ get_logger \/ bind_threadlocal \/ clear_threadlocal \/ log_call

Spec == Init /\ [][Next]_vars

----------------------------------------------------------------------------
(* Properties of the process.                                              *)

\* p is a default list of setup_logging
IsDefaultPipeline(p) ==
    \E wl \in SetupWordlists : p = default_processors(wl, DefaultCallouts).processors

\* the wordlist of the censor stage of a default list
PipelineWordlist(p) ==
    (CHOOSE st \in {p[i] : i \in 1..Len(p)} : st.stage = "PasswordCensor").wordlist

\* key k is one of items
InItems(k, items) == \E i \in 1..Len(items) : items[i] = k

\* the latest setup_logging call returned without raising
SetupSucceeded == last_setup.called /\ last_setup.raised = ""

ValidWordlist(wl) == wl.t \in {"NoneType", "list", "tuple"}

\* C6 as stated: every setup_logging call with a wordlist of an invalid type
\* raises a configuration error from that call, whatever the other options.
C6_InvalidWordlistAlwaysRaises ==
    (last_setup.called /\ ~ValidWordlist(last_setup.wordlist))
        => last_setup.raised = "ValueError"

\* C6 amended: a setup_logging call with no processors override and a wordlist
\* of an invalid type raises ValueError from that call, and no default list
\* holding an unvalidated wordlist is ever installed; a call with an explicit
\* processors override never builds the censor, does not validate the wordlist
\* and does not raise.
C6_InvalidWordlistRaisesWithoutOverride ==
    /\ last_setup.called =>
           IF Len(last_setup.processors) = 0
           THEN last_setup.raised =
                    (IF ValidWordlist(last_setup.wordlist) THEN "" ELSE "ValueError")
           ELSE /\ last_setup.raised = ""
                /\ config.processors = last_setup.processors[1]
    /\ \A i \in 1..Len(config.processors) :
           config.processors[i].stage = "PasswordCensor"
               => ValidWordlist(config.processors[i].wordlist)

\* C6 witness: the latest call passed a single string as the wordlist and no
\* override, and raised.
C6_Witness ==
    /\ last_setup.called
    /\ last_setup.wordlist.t = "str"
    /\ last_setup.processors = <<>>
    /\ last_setup.raised = "ValueError"

\* C7: after setup_logging calls with different noisy source lists, exactly
\* the sources of the latest list have an individual threshold (WARNING);
\* every other source has none and follows the global level.
C7_OnlyLatestNoisyElevated ==
    SetupSucceeded =>
        \A s \in Sources :
            source_level[s] = (IF s \in last_setup.noisy THEN WARNING ELSE NOTSET)

\* the severity a log call through the logger named nm must reach: WARNING if
\* the namespace or its parent was given an individual threshold, else the
\* global level
Threshold(nm) ==
    IF source_level[nm] # NOTSET \/ (nm = "botocore.auth" /\ source_level["botocore"] # NOTSET)
    THEN WARNING
    ELSE root.level

AllDefaultStages ==
    <<"filter_by_level", "add_log_level", "PositionalArgumentsFormatter", "TimeStamper",
      "StackInfoRenderer", "format_exc_info", "UnicodeDecoder", "PasswordCensor",
      "merge_threadlocal", "AWSCloudWatchLogs">>

\* C8 as stated: with the default pipeline, a call below the global level L
\* stops at the level filter and puts out nothing; a call at or above L runs
\* to the render stage and puts out exactly one line.
C8_BelowGlobalLevelSilent ==
    (last_call.handle # 0 /\ IsDefaultPipeline(last_call.pipeline)) =>
        IF LevelOf(last_call.method) < root.level
        THEN last_call.lines = <<>> /\ last_call.ran = <<"filter_by_level">>
        ELSE Len(last_call.lines) = 1 /\ last_call.ran = AllDefaultStages

\* C8 amended: the global level is the L of the setup_logging call that
\* configured the process, and with the default pipeline a call through a handle whose
\* source has no individual threshold (neither it nor its parent namespace
\* was in a noisy source list) is silent below the global level L, stopped by
\* the level filter before the censor and render stages, and puts out exactly
\* one line at or above L; for a source with an individual threshold, that
\* threshold (WARNING) takes the place of L.
C8_BelowThresholdSilent ==
    /\ SetupSucceeded => root.level = last_setup.level
    /\ (last_call.handle # 0 /\ IsDefaultPipeline(last_call.pipeline)) =>
           IF LevelOf(last_call.method) < Threshold(handles[last_call.handle].name)
           THEN last_call.lines = <<>> /\ last_call.ran = <<"filter_by_level">>
           ELSE Len(last_call.lines) = 1 /\ last_call.ran = AllDefaultStages

\* C8 witness: level=ERROR, a warning through the handle of "app" (no
\* individual threshold) stopped at the level filter with no output.
C8_Witness ==
    /\ last_call.handle # 0
    /\ IsDefaultPipeline(last_call.pipeline)
    /\ handles[last_call.handle].name = "app"
    /\ source_level["app"] = NOTSET
    /\ root.level = LevelOf("error")
    /\ last_call.method = "warning"
    /\ last_call.ran = <<"filter_by_level">>
    /\ last_call.lines = <<>>

\* C9: after successful setup_logging calls the process-wide configuration is
\* what the latest call alone produces: its stage list, its level, exactly
\* one stdout handler with the bare-message format, and nothing of earlier
\* calls.
C9_LatestCallAlone ==
    SetupSucceeded =>
        /\ config = [processors |->
                         setup_processors(last_setup.wordlist, last_setup.callouts,
                                          last_setup.processors).processors,
                     is_configured |-> TRUE, cache_logger_on_first_use |-> TRUE]
        /\ root = [level |-> last_setup.level, handlers |-> <<StdoutHandler>>]
        /\ source_level = set_noisy_levels([s \in Sources |-> NOTSET], last_setup.noisy)

\* the parts C9 lists one by one (stage list, global level, the one handler),
\* without the individual thresholds of the sources
C9_ListedPartsOverwritten ==
    SetupSucceeded =>
        /\ config.processors =
               setup_processors(last_setup.wordlist, last_setup.callouts,
                                last_setup.processors).processors
        /\ root = [level |-> last_setup.level, handlers |-> <<StdoutHandler>>]

\* C10: once a handle has made a log call after a setup_logging call, its
\* stage sequence never changes again, whatever setup_logging calls and log
\* calls follow; every log call runs the sequence its handle is bound to, and
\* a handle not yet bound binds the sequence configured at its first call.
C10_FrozenOnFirstUse ==
    [][/\ \A h \in 1..Len(handles) :
              Len(handles[h].bound) = 1 => handles'[h].bound = handles[h].bound
       /\ (last_call' # last_call /\ last_call'.handle # 0) =>
              /\ handles'[last_call'.handle].bound = <<last_call'.pipeline>>
              /\ last_call'.pipeline =
                     (IF Len(handles[last_call'.handle].bound) = 1
                      THEN handles[last_call'.handle].bound[1]
                      ELSE config.processors)]_vars

\* C10 witness: handle 1, bound to a default list, has put out a line through
\* that list after a later setup_logging installed the caller's own list, to
\* which handle 2, first used after that call, is bound.
C10_Witness ==
    /\ Len(handles) = 2
    /\ config.processors = CustomProcessors
    /\ Len(handles[1].bound) = 1 /\ IsDefaultPipeline(handles[1].bound[1])
    /\ handles[2].bound = <<CustomProcessors>>
    /\ last_call.handle = 1
    /\ last_call.pipeline = handles[1].bound[1]
    /\ last_call.ran = AllDefaultStages
    /\ Len(last_call.lines) = 1

=============================================================================
